---- MODULE Spec2Model ----
(***************************************************************************)
(* Job-tracker applicant API: the five handlers of package controllers     *)
(* (CreateApplicant, GetApplicants, GetApplicant, UpdateApplicant,          *)
(* DeleteApplicant), the validation helpers of package utils, the          *)
(* applicants table behind database.DB (GORM on PostgreSQL, soft delete,   *)
(* unique e-mail column) and the Redis page cache behind rdb.              *)
(*                                                                         *)
(* Every handler is split at its network calls (store call, cache call),   *)
(* so that concurrent requests interleave exactly where the Go handlers    *)
(* can be pre-empted by one another.                                       *)
(*                                                                         *)
(* Strings that the code inspects character by character (name, email,     *)
(* position, phone, notes, query values) are sequences of one-character    *)
(* strings; status and resume, which the code only compares or copies,     *)
(* are plain strings.  created_at / updated_at are not modelled.           *)
(***************************************************************************)
EXTENDS Integers, Sequences, FiniteSets, TLC

\* ------------------------------------------------------------------------
\* Bounds of the model
\* ------------------------------------------------------------------------

\* identifiers range over 1..MaxId: the sequence behind the id column is
\* not advanced past MaxId, and explicit ids are drawn from the same range
MaxId == 2

\* ------------------------------------------------------------------------
\* Characters
\* ------------------------------------------------------------------------

Digits == {"0", "1", "2", "3", "4", "5", "6", "7", "8", "9"}

LowerLetters == {"a", "b", "c", "n", "o", "x"}

UpperLetters == {"A", "B", "C", "N", "O", "X"}

Letters == LowerLetters \cup UpperLetters

\* unicode.IsSpace as used by strings.TrimSpace (the white space of the model)
IsSpace(c) == c \in {" ", "\t", "\n"}

\* strings.ToLower on one character
LowerChar(c) ==
    CASE c = "A" -> "a"
      [] c = "B" -> "b"
      [] c = "C" -> "c"
      [] c = "N" -> "n"
      [] c = "O" -> "o"
      [] c = "X" -> "x"
      [] OTHER -> c

\* strings.ToLower
ToLower(s) == [i \in 1..Len(s) |-> LowerChar(s[i])]

RECURSIVE TrimLeft(_)
TrimLeft(s) ==
    IF s # <<>> /\ IsSpace(Head(s)) THEN TrimLeft(Tail(s)) ELSE s

RECURSIVE TrimRight(_)
TrimRight(s) ==
    IF s # <<>> /\ IsSpace(s[Len(s)])
    THEN TrimRight(SubSeq(s, 1, Len(s) - 1))
    ELSE s

\* utils.SanitizeString: strings.TrimSpace
SanitizeString(input) == TrimRight(TrimLeft(input))

\* ------------------------------------------------------------------------
\* utils: validation
\* ------------------------------------------------------------------------

\* [a-zA-Z0-9._%+-]
EmailLocalChar(c) == c \in Letters \cup Digits \cup {".", "_", "%", "+", "-"}

\* [a-zA-Z0-9.-]
EmailDomainChar(c) == c \in Letters \cup Digits \cup {".", "-"}

\* ^[a-zA-Z0-9._%+-]+@[a-zA-Z0-9.-]+\.[a-zA-Z]{2,}$
ValidateEmail(email) ==
    \E at \in 1..Len(email) :
    \E dot \in 1..Len(email) :
        /\ email[at] = "@"
        /\ email[dot] = "."
        /\ at > 1
        /\ \A k \in 1..(at - 1) : EmailLocalChar(email[k])
        /\ dot > at + 1
        /\ \A k \in (at + 1)..(dot - 1) : EmailDomainChar(email[k])
        /\ Len(email) - dot >= 2
        /\ \A k \in (dot + 1)..Len(email) : email[k] \in Letters

\* [\d\s\-\(\)]
PhoneChar(c) == c \in Digits \cup {" ", "\t", "\n", "-", "(", ")"}

\* phone == "" is valid; otherwise ^\+?[\d\s\-\(\)]{10,15}$
ValidatePhone(phone) ==
    IF phone = <<>> THEN TRUE
    ELSE LET rest == IF Head(phone) = "+" THEN Tail(phone) ELSE phone
         IN  /\ Len(rest) >= 10
             /\ Len(rest) <= 15
             /\ \A k \in 1..Len(rest) : PhoneChar(rest[k])

allowedStatuses == {"pending", "reviewed", "interviewed", "hired", "rejected"}

\* utils.ValidateStatus
ValidateStatus(status) == status \in allowedStatuses

\* ------------------------------------------------------------------------
\* models.Applicant
\* ------------------------------------------------------------------------

\* the zero value of the struct: ID 0, DeletedAt not valid, empty strings
ZeroApplicant ==
    [ID |-> 0, Deleted |-> FALSE, Name |-> <<>>, Email |-> <<>>,
     Position |-> <<>>, Status |-> "", Phone |-> <<>>, Resume |-> "",
     Notes |-> <<>>]

\* encoding/json Marshal of one Applicant under the struct's json tags:
\* phone, resume and notes carry omitempty and are left out when empty;
\* deleted_at is a struct, on which omitempty has no effect.
MarshalFields(a) ==
    {"id", "deleted_at", "name", "email", "position", "status"}
        \cup (IF a.Phone # <<>> THEN {"phone"} ELSE {})
        \cup (IF a.Resume # "" THEN {"resume"} ELSE {})
        \cup (IF a.Notes # <<>> THEN {"notes"} ELSE {})

MarshalApplicant(a) ==
    [f \in MarshalFields(a) |->
        CASE f = "id" -> a.ID
          [] f = "deleted_at" -> a.Deleted
          [] f = "name" -> a.Name
          [] f = "email" -> a.Email
          [] f = "position" -> a.Position
          [] f = "status" -> a.Status
          [] f = "phone" -> a.Phone
          [] f = "resume" -> a.Resume
          [] f = "notes" -> a.Notes]

\* encoding/json Unmarshal into a zero Applicant: absent keys keep the zero
UnmarshalApplicant(m) ==
    [ID |-> IF "id" \in DOMAIN m THEN m["id"] ELSE 0,
     Deleted |-> IF "deleted_at" \in DOMAIN m THEN m["deleted_at"] ELSE FALSE,
     Name |-> IF "name" \in DOMAIN m THEN m["name"] ELSE <<>>,
     Email |-> IF "email" \in DOMAIN m THEN m["email"] ELSE <<>>,
     Position |-> IF "position" \in DOMAIN m THEN m["position"] ELSE <<>>,
     Status |-> IF "status" \in DOMAIN m THEN m["status"] ELSE "",
     Phone |-> IF "phone" \in DOMAIN m THEN m["phone"] ELSE <<>>,
     Resume |-> IF "resume" \in DOMAIN m THEN m["resume"] ELSE "",
     Notes |-> IF "notes" \in DOMAIN m THEN m["notes"] ELSE <<>>]

\* json.Marshal(applicants) / json.Unmarshal(val, &applicants)
Marshal(applicants) ==
    [i \in 1..Len(applicants) |-> MarshalApplicant(applicants[i])]

Unmarshal(val) == [i \in 1..Len(val) |-> UnmarshalApplicant(val[i])]

\* ------------------------------------------------------------------------
\* database.DB: the applicants table (GORM on PostgreSQL)
\*   ID        primary key, filled from the table's sequence when 0
\*   Email     unique index over all rows, soft-deleted ones included
\*   DeletedAt soft delete: First/Find/Updates/Delete add
\*             "deleted_at IS NULL"; Delete sets the column
\* ------------------------------------------------------------------------

\* rows a scoped query can see
Visible(rows) == {r \in rows : ~r.Deleted}

\* DB.Where("email = ?", email).First(&existing): the matching rows
WhereEmail(rows, email) == {r \in Visible(rows) : r.Email = email}

\* a lookup by id that is not scoped to the rows that are not soft-deleted
WhereIDUnscoped(rows, id) == {r \in rows : r.ID = id}

\* DB.First(&applicant, id): the matching rows
WhereID(rows, id) == {r \in Visible(rows) : r.ID = id}

\* the constraints of the table, checked by the database on every write
PrimaryKeyOk(rows) == \A r1, r2 \in rows : r1.ID = r2.ID => r1 = r2

UniqueEmailOk(rows) == \A r1, r2 \in rows : r1.Email = r2.Email => r1 = r2

ConstraintsOk(rows) == PrimaryKeyOk(rows) /\ UniqueEmailOk(rows)

\* DB.Create(&applicant): the row as inserted, its ID taken from the
\* sequence when the struct carries none
InsertedRow(applicant, seq) ==
    IF applicant.ID = 0 THEN [applicant EXCEPT !.ID = seq] ELSE applicant

\* the insert violates no constraint of the table
InsertOk(rows, row) ==
    /\ \A r \in rows : r.ID # row.ID
    /\ \A r \in rows : r.Email # row.Email

\* DB.Model(&applicant).Updates(updateData): Updates with a struct writes
\* the struct's non-zero fields only, the primary key and DeletedAt among
\* them; the same values are assigned to the model held in memory.
Merge(applicant, updateData) ==
    [ID |-> IF updateData.ID # 0 THEN updateData.ID ELSE applicant.ID,
     Deleted |-> IF updateData.Deleted THEN TRUE ELSE applicant.Deleted,
     Name |-> IF updateData.Name # <<>> THEN updateData.Name
              ELSE applicant.Name,
     Email |-> IF updateData.Email # <<>> THEN updateData.Email
               ELSE applicant.Email,
     Position |-> IF updateData.Position # <<>> THEN updateData.Position
                  ELSE applicant.Position,
     Status |-> IF updateData.Status # "" THEN updateData.Status
                ELSE applicant.Status,
     Phone |-> IF updateData.Phone # <<>> THEN updateData.Phone
               ELSE applicant.Phone,
     Resume |-> IF updateData.Resume # "" THEN updateData.Resume
                ELSE applicant.Resume,
     Notes |-> IF updateData.Notes # <<>> THEN updateData.Notes
               ELSE applicant.Notes]

\* UPDATE applicants SET ... WHERE id = <id> AND deleted_at IS NULL
UpdatedRows(rows, id, updateData) ==
    {IF r.ID = id /\ ~r.Deleted THEN Merge(r, updateData) ELSE r : r \in rows}

\* the UPDATE leaves as many rows as before and breaks no constraint
UpdateOk(rows, id, updateData) ==
    /\ Cardinality(UpdatedRows(rows, id, updateData)) = Cardinality(rows)
    /\ ConstraintsOk(UpdatedRows(rows, id, updateData))

\* DB.Delete(&applicant):
\* UPDATE applicants SET deleted_at = now WHERE id = <id> AND deleted_at IS NULL
SoftDeleted(rows, id) ==
    {IF r.ID = id /\ ~r.Deleted THEN [r EXCEPT !.Deleted = TRUE] ELSE r :
        r \in rows}

\* the visible rows in the order the table returns them (by id here: the
\* query carries no ORDER BY)
RECURSIVE ByID(_)
ByID(rows) ==
    IF rows = {} THEN <<>>
    ELSE LET first == CHOOSE r \in rows : \A o \in rows : r.ID <= o.ID
         IN  <<first>> \o ByID(rows \ {first})

\* DB.Offset(offset).Limit(limit).Find(&applicants).  GORM renders OFFSET
\* only when offset > 0.  Limit(0) is "LIMIT 0" in GORM >= 1.25 and no LIMIT
\* clause before that; zeroIsAll selects between the two builds.  A
\* negative limit is never rendered.
FindPage(rows, offset, limit, zeroIsAll) ==
    LET all == ByID(Visible(rows))
        from == IF offset > 0 THEN offset + 1 ELSE 1
        unlimited == limit < 0 \/ (limit = 0 /\ zeroIsAll)
        to == IF unlimited THEN Len(all) ELSE from + limit - 1
    IN  SubSeq(all, from, IF to > Len(all) THEN Len(all) ELSE to)

\* ------------------------------------------------------------------------
\* rdb: the Redis page cache
\* ------------------------------------------------------------------------

\* time.Minute*3, in minutes: the lifetime rdb.Set gives an entry
TTL == 3

\* a key printed from the limit alone, shared by the pages of that size
CacheKeyOfLimit(pageInt, limitInt) == <<1, limitInt>>

\* fmt.Sprintf("applicants_page_%d_limit_%d", pageInt, limitInt): the key is
\* the pair of integers it is printed from
CacheKey(pageInt, limitInt) == <<pageInt, limitInt>>

\* "applicants_page_1_limit_10", "applicants_page_1_limit_20"
FixedKeys == {CacheKey(1, 10), CacheKey(1, 20)}

\* rdb.Get(ctx, cacheKey): the live entries under the key (none: redis.Nil)
Entries(entries, key) == {e \in entries : e.key = key}

\* rdb.Set(ctx, cacheKey, jsonData, time.Minute*3)
SetEntry(entries, key, jsonData) ==
    {e \in entries : e.key # key}
        \cup {[key |-> key, val |-> jsonData, ttl |-> TTL]}

\* rdb.Del(ctx, keys...)
DelEntries(entries, keys) == {e \in entries : e.key \notin keys}

\* one minute passes: Redis drops the entries whose lifetime has run out
Aged(entries) ==
    {[e EXCEPT !.ttl = e.ttl - 1] : e \in {x \in entries : x.ttl > 1}}

\* ------------------------------------------------------------------------
\* Request parsing
\* ------------------------------------------------------------------------

DigitValue(c) ==
    CASE c = "0" -> 0 [] c = "1" -> 1 [] c = "2" -> 2 [] c = "3" -> 3
      [] c = "4" -> 4 [] c = "5" -> 5 [] c = "6" -> 6 [] c = "7" -> 7
      [] c = "8" -> 8 [] c = "9" -> 9

RECURSIVE DigitsValue(_, _)
DigitsValue(s, acc) ==
    IF s = <<>> THEN acc
    ELSE DigitsValue(Tail(s), acc * 10 + DigitValue(Head(s)))

\* strconv.Atoi with the error dropped: 0 for anything that is no integer
Atoi(s) ==
    LET signed == s # <<>> /\ Head(s) \in {"+", "-"}
        digits == IF signed THEN Tail(s) ELSE s
    IN  IF digits = <<>> \/ \E k \in 1..Len(digits) : digits[k] \notin Digits
        THEN 0
        ELSE IF signed /\ Head(s) = "-" THEN 0 - DigitsValue(digits, 0)
        ELSE DigitsValue(digits, 0)

\* c.Query(key, defaultValue): the default stands in for an absent or empty
\* value only
Query(raw, defaultValue) == IF raw = <<>> THEN defaultValue ELSE raw

\* lines 61-65 of CreateApplicant
Sanitized(applicant) ==
    [applicant EXCEPT
        !.Name = SanitizeString(applicant.Name),
        !.Email = ToLower(SanitizeString(applicant.Email)),
        !.Position = SanitizeString(applicant.Position),
        !.Phone = SanitizeString(applicant.Phone),
        !.Notes = SanitizeString(applicant.Notes)]

\* lines 67-87 of CreateApplicant, on the sanitized struct: the request
\* passes every check
ValidationOk(applicant) ==
    /\ ~(applicant.Name = <<>> \/ applicant.Email = <<>>
            \/ applicant.Position = <<>>)
    /\ ValidateEmail(applicant.Email)
    /\ ~(applicant.Phone # <<>> /\ ~ValidatePhone(applicant.Phone))
    /\ (applicant.Status = "" \/ ValidateStatus(applicant.Status))

\* lines 82-84 of CreateApplicant
WithDefaultStatus(applicant) ==
    IF applicant.Status = "" THEN [applicant EXCEPT !.Status = "pending"]
    ELSE applicant

\* ------------------------------------------------------------------------
\* State
\* ------------------------------------------------------------------------

\* the request slots: two requests are handled at the same time, which is
\* what the interleavings of two handlers need
Procs == {1, 2}

VARIABLES
    store,     \* the rows of table applicants, soft-deleted ones included
    nextId,    \* the next value of the sequence behind applicants.id
    cache,     \* the live Redis entries: [key, val, ttl]
    procs,     \* per request slot: the handler running in it and its locals
    workload,  \* the requests and faults the environment may produce, and
               \* the history kept for the claims checked under it
    created,   \* history: [id, input, returned] of each row a Create
               \* inserted and no Update or Delete wrote since, returned
               \* telling whether the Create has answered 201
    deleted,   \* history: the ids for which a Delete answered 200
    served     \* history: per List that wrote a key not invalidated since,
               \* [key, pageInt, limitInt, applicants, ttl, last]: what it
               \* answered, ttl aging like its entry's, last marking the
               \* latest writer of the key

vars == <<store, nextId, cache, procs, workload, created, deleted, served>>

\* a slot with no request in it.  Locals are named as in the handlers;
\* the fields after status are history the handlers do not have:
\*   input    the body of a Create request that passed validation, as
\*            received
\*   dbErr    a store call of the request failed in the driver
\*   redisErr a cache call of the request failed
\*   dbCalls  the store calls the request has made
\*   path     how a List was served: "hit", "miss" or "fallback"
\*   fresh    (Create) no row carried the e-mail when the request began
\*            (List) no write was waiting for its invalidation then
\*   dirty    (List) the table was written since the request began
\*   after    (Get/Update/Delete) a Delete of the id had answered 200 before
\*   expect   (Get) the inputs of the Creates that answered 201 with the
\*            id, their row unwritten since
\*            (List hit) the answers of the Lists that wrote the key
\*   latest   (List hit) the answer of the List that wrote the entry read
\*   query    (List) the page and limit query values as received
\*   empty    (Update) the fields the body carries with an empty value
IdleProc ==
    [op |-> "none", pc |-> "idle", id |-> 0,
     applicant |-> ZeroApplicant, updateData |-> ZeroApplicant,
     pageInt |-> 0, limitInt |-> 0, applicants |-> <<>>, status |-> 0,
     input |-> ZeroApplicant, dbErr |-> FALSE, redisErr |-> FALSE,
     dbCalls |-> 0, path |-> "", fresh |-> FALSE, dirty |-> FALSE,
     after |-> FALSE, expect |-> {}, latest |-> {},
     query |-> <<<<>>, <<>>>>, empty |-> {}]

\* the history named h is being kept
Keeps(h) == h \in workload.history

\* a store write happened: the table is no longer the one that the Lists
\* begun before it started with
Dirtied(ps) ==
    [q \in Procs |->
        IF Keeps("settled") /\ ps[q].op = "list"
        THEN [ps[q] EXCEPT !.dirty = TRUE] ELSE ps[q]]

\* requests that wrote the table and have not yet invalidated the cache
Invalidating == {q \in Procs : procs[q].pc = "invalidate"}

\* Creates that will draw their id from the sequence
DrawingIds ==
    {q \in Procs : procs[q].pc = "insert" /\ procs[q].applicant.ID = 0}

\* ------------------------------------------------------------------------
\* CreateApplicant
\* ------------------------------------------------------------------------

\* a Create that removes the fixed keys before it validates its input
CreateCheckInvalidating(p, req, err) ==
    LET l == procs[p]
        applicant == WithDefaultStatus(Sanitized(req.val))
        found == ~err /\ WhereEmail(store, applicant.Email) # {}
        begun == [l EXCEPT !.op = "create", !.applicant = applicant]
    IN  /\ l.pc = "idle"
        /\ cache' = DelEntries(cache, FixedKeys)
        /\ IF ~req.ok \/ ~ValidationOk(Sanitized(req.val))
           THEN procs' = [procs EXCEPT ![p] =
                    [begun EXCEPT !.pc = "done", !.status = 400]]
           ELSE IF found
           THEN procs' = [procs EXCEPT ![p] =
                    [begun EXCEPT !.pc = "done", !.status = 409,
                                  !.dbCalls = 1]]
           ELSE /\ applicant.ID = 0 =>
                        nextId + Cardinality(DrawingIds) <= MaxId
                /\ procs' = [procs EXCEPT ![p] =
                    [begun EXCEPT !.pc = "insert", !.dbErr = err,
                        !.dbCalls = 1,
                        !.input = IF Keeps("created") THEN req.val
                                  ELSE ZeroApplicant,
                        !.fresh = Keeps("fresh") /\ \A r \in store :
                                      r.Email # applicant.Email]]
        /\ UNCHANGED <<store, nextId, workload, created, deleted, served>>

\* lines 54-93: parse, sanitize, validate, look the e-mail up.
\* req is the request body ([ok: it parses, val: the struct it parses to]),
\* err whether the lookup fails in the driver.
CreateCheck(p, req, err) ==
    LET l == procs[p]
        applicant == WithDefaultStatus(Sanitized(req.val))
        found == ~err /\ WhereEmail(store, applicant.Email) # {}
        begun == [l EXCEPT !.op = "create", !.applicant = applicant]
    IN  /\ l.pc = "idle"
        /\ IF ~req.ok \/ ~ValidationOk(Sanitized(req.val))
           THEN procs' = [procs EXCEPT ![p] =
                    [begun EXCEPT !.pc = "done", !.status = 400]]
           ELSE IF found
           THEN procs' = [procs EXCEPT ![p] =
                    [begun EXCEPT !.pc = "done", !.status = 409,
                                  !.dbCalls = 1]]
           ELSE /\ applicant.ID = 0 =>
                        nextId + Cardinality(DrawingIds) <= MaxId
                /\ procs' = [procs EXCEPT ![p] =
                    [begun EXCEPT !.pc = "insert", !.dbErr = err,
                        !.dbCalls = 1,
                        !.input = IF Keeps("created") THEN req.val
                                  ELSE ZeroApplicant,
                        !.fresh = Keeps("fresh") /\ \A r \in store :
                                      r.Email # applicant.Email]]
        /\ UNCHANGED <<store, nextId, cache, workload, created, deleted,
                       served>>

\* lines 95-98: DB.Create(&applicant)
CreateInsert(p, err) ==
    LET l == procs[p]
        row == InsertedRow(l.applicant, nextId)
    IN  /\ l.pc = "insert"
        /\ IF err \/ ~InsertOk(store, row)
           THEN /\ procs' = [procs EXCEPT ![p] =
                        [l EXCEPT !.pc = "done", !.status = 500,
                                  !.dbCalls = 2,
                                  !.dbErr = l.dbErr \/ err]]
                /\ UNCHANGED <<store, created>>
           ELSE /\ store' = store \cup {row}
                /\ procs' = [Dirtied(procs) EXCEPT ![p] =
                        [l EXCEPT !.pc = "invalidate", !.dbCalls = 2,
                                  !.applicant = row]]
                /\ created' = IF ~Keeps("created") THEN created
                        ELSE created \cup
                                {[id |-> row.ID, input |-> l.input,
                                  returned |-> FALSE]}
        /\ nextId' = IF l.applicant.ID = 0 /\ ~err THEN nextId + 1
                     ELSE nextId
        /\ UNCHANGED <<cache, workload, deleted, served>>

\* lines 100-105: rdb.Del of the two fixed keys (its error is dropped),
\* then 201 with the struct
CreateInvalidate(p, err) ==
    LET l == procs[p]
    IN  /\ l.pc = "invalidate"
        /\ l.op = "create"
        /\ cache' = IF err THEN cache ELSE DelEntries(cache, FixedKeys)
        /\ served' = IF err THEN served
                     ELSE {x \in served : x.key \notin FixedKeys}
        /\ procs' = [procs EXCEPT ![p] =
                [l EXCEPT !.pc = "done", !.status = 201,
                          !.redisErr = err]]
        /\ created' = {IF c.id = l.applicant.ID
                        THEN [c EXCEPT !.returned = TRUE] ELSE c :
                            c \in created}
        /\ UNCHANGED <<store, nextId, workload, deleted>>

\* ------------------------------------------------------------------------
\* GetApplicants
\* ------------------------------------------------------------------------

\* what a List answered: {data, page, limit}
Answer(x) ==
    [data |-> x.applicants, page |-> x.pageInt, limit |-> x.limitInt]

\* lines 109-121 and 157-166: parse the query, rdb.Get; a hit is answered
\* from the entry at once.  page and limit are the raw query values (<<>>
\* when absent), err whether rdb.Get fails with an error other than
\* redis.Nil.
ListLookup(p, page, limit, err) ==
    LET l == procs[p]
        pageInt == Atoi(Query(page, <<"1">>))
        limitInt == Atoi(Query(limit, <<"1", "0">>))
        cacheKey == CacheKey(pageInt, limitInt)
        hits == Entries(cache, cacheKey)
        begun == [l EXCEPT !.op = "list", !.pageInt = pageInt,
                           !.limitInt = limitInt,
                           !.query = <<page, limit>>,
                           !.fresh = Keeps("settled") /\ Invalidating = {}]
    IN  /\ l.pc = "idle"
        /\ procs' = [procs EXCEPT ![p] =
                IF err
                THEN [begun EXCEPT !.pc = "fallback", !.path = "fallback",
                                   !.redisErr = TRUE]
                ELSE IF hits = {}
                THEN [begun EXCEPT !.pc = "query", !.path = "miss"]
                ELSE [begun EXCEPT !.pc = "done", !.path = "hit",
                        !.status = 200,
                        !.applicants =
                            Unmarshal((CHOOSE e \in hits : TRUE).val),
                        !.expect = {Answer(x) : x \in
                            {y \in served : y.key = cacheKey}},
                        !.latest = {Answer(x) : x \in
                            {y \in served : y.key = cacheKey /\ y.last}}]]
        /\ UNCHANGED <<store, nextId, cache, workload, created, deleted,
                       served>>

\* lines 122-129: the cache missed; DB.Offset(offset).Limit(limitInt).Find
ListQuery(p, err, zeroIsAll) ==
    LET l == procs[p]
        offset == (l.pageInt - 1) * l.limitInt
    IN  /\ l.pc = "query"
        /\ procs' = [procs EXCEPT ![p] =
                IF err
                THEN [l EXCEPT !.pc = "done", !.status = 500,
                               !.dbCalls = 1, !.dbErr = TRUE]
                ELSE [l EXCEPT !.pc = "set", !.dbCalls = 1,
                        !.applicants =
                            FindPage(store, offset, l.limitInt, zeroIsAll)]]
        /\ UNCHANGED <<store, nextId, cache, workload, created, deleted,
                       served>>

\* lines 131-140: rdb.Set for three minutes (its error is dropped), 200
ListSet(p, err) ==
    LET l == procs[p]
        cacheKey == CacheKey(l.pageInt, l.limitInt)
        jsonData == Marshal(l.applicants)
    IN  /\ l.pc = "set"
        /\ cache' = IF err THEN cache
                    ELSE SetEntry(cache, cacheKey, jsonData)
        /\ served' = IF err \/ ~Keeps("served") THEN served
                     ELSE {IF x.key = cacheKey
                           THEN [x EXCEPT !.last = FALSE] ELSE x :
                                x \in served}
                          \cup {[key |-> cacheKey,
                                 pageInt |-> l.pageInt,
                                 limitInt |-> l.limitInt,
                                 applicants |-> l.applicants,
                                 ttl |-> TTL, last |-> TRUE]}
        /\ procs' = [procs EXCEPT ![p] =
                [l EXCEPT !.pc = "done", !.status = 200,
                          !.redisErr = err]]
        /\ UNCHANGED <<store, nextId, workload, created, deleted>>

\* a List that gives up when rdb.Get failed
ListFallbackFailing(p, err, zeroIsAll) ==
    LET l == procs[p]
    IN  /\ l.pc = "fallback"
        /\ procs' = [procs EXCEPT ![p] =
                [l EXCEPT !.pc = "done", !.status = 500,
                          !.dbErr = err]]
        /\ UNCHANGED <<store, nextId, cache, workload, created, deleted,
                       served>>

\* lines 142-155: rdb.Get failed; serve from the table, write no entry
ListFallback(p, err, zeroIsAll) ==
    LET l == procs[p]
        offset == (l.pageInt - 1) * l.limitInt
    IN  /\ l.pc = "fallback"
        /\ procs' = [procs EXCEPT ![p] =
                IF err
                THEN [l EXCEPT !.pc = "done", !.status = 500,
                               !.dbCalls = 1, !.dbErr = TRUE]
                ELSE [l EXCEPT !.pc = "done", !.status = 200,
                        !.dbCalls = 1,
                        !.applicants =
                            FindPage(store, offset, l.limitInt, zeroIsAll)]]
        /\ UNCHANGED <<store, nextId, cache, workload, created, deleted,
                       served>>

\* ------------------------------------------------------------------------
\* GetApplicant
\* ------------------------------------------------------------------------

\* lines 169-178: DB.First(&applicant, id); every error answers 404
GetApplicant(p, id, err) ==
    LET l == procs[p]
        rows == WhereID(store, id)
        begun == [l EXCEPT !.op = "get", !.id = id, !.dbErr = err,
                           !.dbCalls = 1,
                           !.after = id \in deleted,
                           !.expect = {c.input : c \in
                                {x \in created : x.id = id /\ x.returned}}]
    IN  /\ l.pc = "idle"
        /\ procs' = [procs EXCEPT ![p] =
                IF err \/ rows = {}
                THEN [begun EXCEPT !.pc = "done", !.status = 404]
                ELSE [begun EXCEPT !.pc = "done", !.status = 200,
                        !.applicant = CHOOSE r \in rows : TRUE]]
        /\ UNCHANGED <<store, nextId, cache, workload, created, deleted,
                       served>>

\* ------------------------------------------------------------------------
\* UpdateApplicant
\* ------------------------------------------------------------------------

\* lines 180-193: DB.First(&applicant, id), every error answering 404;
\* then the body is parsed
UpdateFind(p, id, req, err) ==
    LET l == procs[p]
        rows == WhereID(store, id)
        begun == [l EXCEPT !.op = "update", !.id = id, !.dbErr = err,
                           !.dbCalls = 1,
                           !.after = id \in deleted]
    IN  /\ l.pc = "idle"
        /\ procs' = [procs EXCEPT ![p] =
                IF err \/ rows = {}
                THEN [begun EXCEPT !.pc = "done", !.status = 404]
                ELSE IF ~req.ok
                THEN [begun EXCEPT !.pc = "done", !.status = 400,
                        !.applicant = CHOOSE r \in rows : TRUE]
                ELSE [begun EXCEPT !.pc = "write",
                        !.applicant = CHOOSE r \in rows : TRUE,
                        !.updateData = req.val,
                        !.empty = req.empty]]
        /\ UNCHANGED <<store, nextId, cache, workload, created, deleted,
                       served>>

\* lines 195-198: DB.Model(&applicant).Updates(updateData)
UpdateWrite(p, err) ==
    LET l == procs[p]
        rows == UpdatedRows(store, l.applicant.ID, l.updateData)
    IN  /\ l.pc = "write"
        /\ l.op = "update"
        /\ IF err \/ ~UpdateOk(store, l.applicant.ID, l.updateData)
           THEN /\ procs' = [procs EXCEPT ![p] =
                        [l EXCEPT !.pc = "done", !.status = 500,
                                  !.dbCalls = 2, !.dbErr = err]]
                /\ UNCHANGED <<store, created>>
           ELSE /\ store' = rows
                /\ procs' =
                        [(IF rows # store THEN Dirtied(procs) ELSE procs)
                            EXCEPT ![p] =
                                [l EXCEPT !.pc = "invalidate",
                                    !.dbCalls = 2,
                                    !.applicant =
                                        Merge(l.applicant, l.updateData)]]
                /\ created' = {c \in created : c.id # l.applicant.ID}
        /\ UNCHANGED <<nextId, cache, workload, deleted, served>>

\* lines 200-202: rdb.Del of the two fixed keys, then 200 with the struct
UpdateInvalidate(p, err) ==
    LET l == procs[p]
    IN  /\ l.pc = "invalidate"
        /\ l.op = "update"
        /\ cache' = IF err THEN cache ELSE DelEntries(cache, FixedKeys)
        /\ served' = IF err THEN served
                     ELSE {x \in served : x.key \notin FixedKeys}
        /\ procs' = [procs EXCEPT ![p] =
                [l EXCEPT !.pc = "done", !.status = 200,
                          !.redisErr = err]]
        /\ UNCHANGED <<store, nextId, workload, created, deleted>>

\* ------------------------------------------------------------------------
\* DeleteApplicant
\* ------------------------------------------------------------------------

\* lines 205-212: DB.First(&applicant, id), every error answering 404
DeleteFind(p, id, err) ==
    LET l == procs[p]
        rows == WhereID(store, id)
        begun == [l EXCEPT !.op = "delete", !.id = id, !.dbErr = err,
                           !.dbCalls = 1,
                           !.after = id \in deleted]
    IN  /\ l.pc = "idle"
        /\ procs' = [procs EXCEPT ![p] =
                IF err \/ rows = {}
                THEN [begun EXCEPT !.pc = "done", !.status = 404]
                ELSE [begun EXCEPT !.pc = "write",
                        !.applicant = CHOOSE r \in rows : TRUE]]
        /\ UNCHANGED <<store, nextId, cache, workload, created, deleted,
                       served>>

\* lines 214-217: DB.Delete(&applicant)
DeleteWrite(p, err) ==
    LET l == procs[p]
        rows == SoftDeleted(store, l.applicant.ID)
    IN  /\ l.pc = "write"
        /\ l.op = "delete"
        /\ IF err
           THEN /\ procs' = [procs EXCEPT ![p] =
                        [l EXCEPT !.pc = "done", !.status = 500,
                                  !.dbCalls = 2, !.dbErr = TRUE]]
                /\ UNCHANGED <<store, created>>
           ELSE /\ store' = rows
                /\ procs' =
                        [(IF rows # store THEN Dirtied(procs) ELSE procs)
                            EXCEPT ![p] = [l EXCEPT !.pc = "invalidate",
                                                    !.dbCalls = 2]]
                /\ created' = {c \in created : c.id # l.applicant.ID}
        /\ UNCHANGED <<nextId, cache, workload, deleted, served>>

\* lines 219-221: rdb.Del of the two fixed keys, then 200 with a message
DeleteInvalidate(p, err) ==
    LET l == procs[p]
    IN  /\ l.pc = "invalidate"
        /\ l.op = "delete"
        /\ cache' = IF err THEN cache ELSE DelEntries(cache, FixedKeys)
        /\ served' = IF err THEN served
                     ELSE {x \in served : x.key \notin FixedKeys}
        /\ procs' = [procs EXCEPT ![p] =
                [l EXCEPT !.pc = "done", !.status = 200,
                          !.redisErr = err]]
        /\ deleted' = IF Keeps("deleted") THEN deleted \cup {l.id}
                      ELSE deleted
        /\ UNCHANGED <<store, nextId, workload, created>>

\* ------------------------------------------------------------------------
\* Environment
\* ------------------------------------------------------------------------

\* a minute passes in Redis
Tick ==
    /\ cache # {} \/ served # {}
    /\ cache' = Aged(cache)
    /\ served' = Aged(served)
    /\ UNCHANGED <<store, nextId, procs, workload, created, deleted>>

\* the response has been sent: the slot takes the next request
Respond(p) ==
    /\ procs[p].pc = "done"
    /\ procs' = [procs EXCEPT ![p] = IdleProc]
    /\ UNCHANGED <<store, nextId, cache, workload, created, deleted,
                   served>>

\* whether a store call may fail in the driver (connection lost, timeout)
DbErrs == IF workload.dbErrs THEN BOOLEAN ELSE {FALSE}

\* whether the Redis call named call ("get", "set", "del") may fail
RedisErrs(call) == IF call \in workload.redisErrs THEN BOOLEAN ELSE {FALSE}

Next ==
    \/ \E p \in Procs, req \in workload.creates, err \in DbErrs :
            CreateCheck(p, req, err)
    \/ \E p \in Procs, err \in DbErrs : CreateInsert(p, err)
    \/ \E p \in Procs, err \in RedisErrs("del") : CreateInvalidate(p, err)
    \/ \E p \in Procs, q \in workload.queries, err \in RedisErrs("get") :
            ListLookup(p, q[1], q[2], err)
    \/ \E p \in Procs, err \in DbErrs, zeroIsAll \in BOOLEAN :
            ListQuery(p, err, zeroIsAll)
    \/ \E p \in Procs, err \in RedisErrs("set") : ListSet(p, err)
    \/ \E p \in Procs, err \in DbErrs, zeroIsAll \in BOOLEAN :
            ListFallback(p, err, zeroIsAll)
    \/ \E p \in Procs, id \in workload.ids, err \in DbErrs :
            GetApplicant(p, id, err)
    \/ \E p \in Procs, id \in workload.ids, req \in workload.updates,
          err \in DbErrs :
            UpdateFind(p, id, req, err)
    \/ \E p \in Procs, err \in DbErrs : UpdateWrite(p, err)
    \/ \E p \in Procs, err \in RedisErrs("del") : UpdateInvalidate(p, err)
    \/ \E p \in Procs, id \in workload.ids, err \in DbErrs :
            DeleteFind(p, id, err)
    \/ \E p \in Procs, err \in DbErrs : DeleteWrite(p, err)
    \/ \E p \in Procs, err \in RedisErrs("del") : DeleteInvalidate(p, err)
    \/ Tick
    \/ \E p \in Procs : Respond(p)

\* ------------------------------------------------------------------------
\* Requests of the workloads
\* ------------------------------------------------------------------------

EmailA == <<"a", "@", "b", ".", "c", "o">>

EmailAUpper == <<"A", "@", "B", ".", "c", "o">>

EmailAPadded == <<" ", "a", "@", "b", ".", "c", "o", " ">>

EmailB == <<"c", "@", "b", ".", "c", "o">>

\* no "@": "ab"
EmailBad == <<"a", "b">>

\* "0123456789", "+0123456789", "abc"
PhoneTen == <<"0", "1", "2", "3", "4", "5", "6", "7", "8", "9">>

PhonePlus == <<"+">> \o PhoneTen

PhoneBad == <<"a", "b", "c">>

\* a body that parses to val, carrying the fields named in empty with an
\* empty value (""), which c.BodyParser parses to the zero value that an
\* absent field has too
BodyWith(val, empty) == [ok |-> TRUE, val |-> val, empty |-> empty]

\* a body that parses to val / a body that does not parse
Body(val) == BodyWith(val, {})

Malformed == [ok |-> FALSE, val |-> ZeroApplicant, empty |-> {}]

\* the smallest valid applicant with e-mail EmailA, and one with EmailB
ApplicantA ==
    [ZeroApplicant EXCEPT !.Name = <<"n">>, !.Email = EmailA,
                          !.Position = <<"x">>]

ApplicantB == [ApplicantA EXCEPT !.Email = EmailB]

\* valid bodies of one e-mail that differ from what is stored for them:
\* padding, case, optional fields
ValidCreates ==
    {Body(ApplicantA),
     Body([ApplicantA EXCEPT !.Email = EmailAUpper,
                             !.Name = <<" ", "n", " ">>]),
     Body([ApplicantA EXCEPT !.Email = EmailAPadded, !.Status = "hired",
                             !.Phone = PhonePlus, !.Resume = " cv ",
                             !.Notes = <<"o", " ">>])}

\* one body per rejection of lines 55-87
InvalidCreates ==
    {Malformed,
     Body([ApplicantA EXCEPT !.Name = <<" ">>]),
     Body([ApplicantA EXCEPT !.Email = <<>>]),
     Body([ApplicantA EXCEPT !.Position = <<>>]),
     Body([ApplicantA EXCEPT !.Email = EmailBad]),
     Body([ApplicantA EXCEPT !.Phone = PhoneBad]),
     Body([ApplicantA EXCEPT !.Status = "ghosted"])}

\* valid bodies that carry the columns the store manages
ManagedCreates ==
    {Body([ApplicantA EXCEPT !.ID = MaxId]),
     Body([ApplicantA EXCEPT !.Deleted = TRUE])}

StatusUpdates ==
    {Body([ZeroApplicant EXCEPT !.Status = "hired"]),
     Body([ZeroApplicant EXCEPT !.Status = "ghosted"])}

FieldUpdates ==
    {Body([ZeroApplicant EXCEPT !.Email = EmailB]),
     Body([ZeroApplicant EXCEPT !.Name = <<"o">>]),
     Malformed}

\* a body that renames and a body that clears the notes: {"notes": ""}
ClearingUpdates ==
    {Body([ZeroApplicant EXCEPT !.Name = <<"o">>]),
     BodyWith(ZeroApplicant, {"Notes"})}

ManagedUpdates ==
    {Body([ZeroApplicant EXCEPT !.ID = MaxId]),
     Body([ZeroApplicant EXCEPT !.Deleted = TRUE])}

\* ?page=&limit= as received: both absent, and page 2 with limit absent
DefaultQuery == <<<<>>, <<>>>>

Queries == {DefaultQuery, <<<<"2">>, <<>>>>}

\* ?limit=2: page 1 under a key that no handler removes
SmallPageQuery == <<<<>>, <<"2">>>>

\* ?page=&limit= with a value that is no number: ?page=x, ?limit=x
WordQueries == {<<<<"x">>, <<>>>>, <<<<>>, <<"x">>>>}

Ids == 1..MaxId

\* ------------------------------------------------------------------------
\* Specifications
\* ------------------------------------------------------------------------

\* the server after main(): an empty table, an empty cache, no request
InitWith(w) ==
    /\ store = {}
    /\ nextId = 1
    /\ cache = {}
    /\ procs = [p \in Procs |-> IdleProc]
    /\ workload = w
    /\ created = {}
    /\ deleted = {}
    /\ served = {}

\* a workload: the bodies of Create and Update requests, the queries of
\* List requests, the ids of Get/Update/Delete requests, whether store
\* calls may fail, the Redis calls that may fail, and the history kept
Workload(creates, updates, queries, dbErrs, redisErrs, history) ==
    [creates |-> creates, updates |-> updates, queries |-> queries,
     ids |-> Ids, dbErrs |-> dbErrs, redisErrs |-> redisErrs,
     history |-> history]

\* Creates of one e-mail in three spellings, racing each other
InitRace ==
    InitWith(Workload(
        {Body(ApplicantA),
         Body([ApplicantA EXCEPT !.Email = EmailAUpper]),
         Body([ApplicantA EXCEPT !.Email = EmailAPadded])},
        {Body([ZeroApplicant EXCEPT !.Status = "hired"])},
        {DefaultQuery}, FALSE, {"get"}, {"fresh"}))

SpecRace == InitRace /\ [][Next]_vars

\* Lists of the first page racing the three kinds of write
InitStale ==
    InitWith(Workload(
        {Body(ApplicantA)},
        {Body([ZeroApplicant EXCEPT !.Status = "hired"])},
        {DefaultQuery}, FALSE, {"get"}, {"settled"}))

SpecStale == InitStale /\ [][Next]_vars

\* Creates of every kind of body, valid and invalid, and Updates of the
\* status
InitFields ==
    InitWith(Workload(
        ValidCreates \cup InvalidCreates \cup ManagedCreates,
        StatusUpdates,
        {DefaultQuery}, FALSE, {"get"}, {"created"}))

SpecFields == InitFields /\ [][Next]_vars

\* Creates of bodies that are stored as received, with and without the
\* columns the store manages
InitSoft ==
    InitWith(Workload(
        {Body(ApplicantA)} \cup ManagedCreates,
        {Body([ZeroApplicant EXCEPT !.Status = "hired"])},
        {DefaultQuery}, FALSE, {"get"}, {"created"}))

SpecSoft == InitSoft /\ [][Next]_vars

\* Deletes racing Updates that carry the columns the store manages
InitDelete ==
    InitWith(Workload(
        {Body(ApplicantA)}, ManagedUpdates,
        {DefaultQuery}, FALSE, {"get"}, {"deleted"}))

SpecDelete == InitDelete /\ [][Next]_vars

\* every handler with its store calls and its Redis calls failing at will
InitFaults ==
    InitWith(Workload(
        {Body(ApplicantA)},
        {Body([ZeroApplicant EXCEPT !.Status = "hired"])},
        {DefaultQuery}, TRUE, {"get", "set", "del"}, {}))

SpecFaults == InitFaults /\ [][Next]_vars

\* Lists of two pages, hitting and missing, racing each other and writes
InitHit ==
    InitWith(Workload(
        {Body(ApplicantA)},
        {Body([ZeroApplicant EXCEPT !.Status = "hired"])},
        Queries, FALSE, {"get"}, {"served"}))

SpecHit == InitHit /\ [][Next]_vars

\* Updates of a row that has notes, one of them clearing the notes
InitMerge ==
    InitWith(Workload(
        {Body([ApplicantA EXCEPT !.Notes = <<"o">>])},
        ClearingUpdates,
        {DefaultQuery}, FALSE, {"get"}, {}))

SpecMerge == InitMerge /\ [][Next]_vars

\* Lists of a page whose key is never invalidated, racing writes
InitTtl ==
    InitWith(Workload(
        {Body(ApplicantA)},
        {Body([ZeroApplicant EXCEPT !.Status = "hired"])},
        {SmallPageQuery}, FALSE, {"get"}, {}))

SpecTtl == InitTtl /\ [][Next]_vars

\* Updates of the status racing Deletes of the same row
InitGone ==
    InitWith(Workload(
        {Body(ApplicantA)},
        {Body([ZeroApplicant EXCEPT !.Status = "hired"])},
        {DefaultQuery}, FALSE, {"get"}, {}))

SpecGone == InitGone /\ [][Next]_vars

\* Lists whose page or limit is absent or no number
InitQuery ==
    InitWith(Workload(
        {Body(ApplicantA)},
        {Body([ZeroApplicant EXCEPT !.Status = "hired"])},
        WordQueries, FALSE, {"get"}, {}))

SpecQuery == InitQuery /\ [][Next]_vars

\* ------------------------------------------------------------------------
\* Claims
\* ------------------------------------------------------------------------

Finished(p, op) == procs[p].pc = "done" /\ procs[p].op = op

\* C1: two Create requests with the same normalized e-mail and otherwise
\* valid input, the e-mail being new when the first of them began and no
\* store call failing, end with one 201 and one 409, whatever the
\* interleaving of their lookups and inserts.
CreatePairOutcome ==
    \A p, q \in Procs :
        (/\ p # q
         /\ Finished(p, "create") /\ Finished(q, "create")
         /\ procs[p].status # 400 /\ procs[q].status # 400
         /\ procs[p].applicant.Email = procs[q].applicant.Email
         /\ ~procs[p].dbErr /\ ~procs[q].dbErr
         /\ procs[p].fresh)
        => {procs[p].status, procs[q].status} = {201, 409}

\* C2: once every write to the table has been followed by the removal of
\* the fixed keys, a List(page=1, limit=10) that starts then, and during
\* which the table is not written again, returns the first page of the
\* table as it is, whatever Lists were in flight while the writes ran.
ListAfterMutation ==
    \A p \in Procs :
        (/\ Finished(p, "list")
         /\ CacheKey(procs[p].pageInt, procs[p].limitInt) = CacheKey(1, 10)
         /\ procs[p].status = 200
         /\ store # {}
         /\ procs[p].fresh
         /\ ~procs[p].dirty)
        => procs[p].applicants = FindPage(store, 0, 10, FALSE)

\* C3: every row of the table, soft-deleted ones included, has a status of
\* the enumeration.
StatusInEnumeration == \A r \in store : r.Status \in allowedStatuses

\* the seven content fields of an applicant
Content(a) ==
    <<a.Name, a.Email, a.Position, a.Status, a.Phone, a.Resume, a.Notes>>

\* the body with status pending when it carries none
Defaulted(input) ==
    IF input.Status = "" THEN [input EXCEPT !.Status = "pending"] ELSE input

\* a Get that finished without a store failure, for an id whose row was
\* inserted by a Create and written by no Update or Delete since
GetOfCreated(p) ==
    /\ Finished(p, "get")
    /\ ~procs[p].dbErr
    /\ procs[p].expect # {}

\* C4: a successful Create followed by Get(id), with no Update or Delete of
\* the id in between, returns 200 and a record whose name, email, position,
\* status, phone, resume and notes equal the input (status pending when
\* omitted).
GetReturnsInput ==
    \A p \in Procs :
        GetOfCreated(p) =>
            /\ procs[p].status = 200
            /\ \A input \in procs[p].expect :
                    Content(procs[p].applicant) = Content(Defaulted(input))

\* C10: the step in which a Create is rejected, for validation (400) or for
\* a duplicate e-mail (409), changes neither the table, nor the sequence,
\* nor the cache; the rejected request takes no other step.
RejectedCreateWritesNothing ==
    [][\A p \in Procs :
        (/\ procs[p].pc # "done"
         /\ procs'[p].pc = "done"
         /\ procs'[p].op = "create"
         /\ procs'[p].status \in {400, 409})
        => /\ procs[p].pc = "idle"
           /\ store' = store
           /\ nextId' = nextId
           /\ cache' = cache]_vars

\* C10's case: a Create was rejected as a duplicate while the cache held
\* an entry under a fixed key
RejectedWithCachedPage ==
    \E p \in Procs :
        /\ Finished(p, "create")
        /\ procs[p].status = 409
        /\ \E e \in cache : e.key \in FixedKeys
        /\ \E q \in Procs :
                Finished(q, "create") /\ procs[q].status = 400

\* C5: once Delete(id) has answered 200, every Get, Update and Delete of
\* the id that starts afterwards answers 404, and the table keeps a row of
\* that id marked as deleted.
DeletedStaysDeleted ==
    /\ \A p \in Procs :
            (/\ procs[p].pc = "done"
             /\ procs[p].op \in {"get", "update", "delete"}
             /\ procs[p].after)
            => procs[p].status = 404
    /\ \A id \in deleted : \E r \in store : r.ID = id /\ r.Deleted

\* the request in slot p takes a step from pc from to pc to
Steps(p, from, to) == procs[p].pc = from /\ procs'[p].pc = to

\* C6: a failing cache call fails no request.  A List whose rdb.Get fails
\* goes to the table, answers 200 with the page it reads there unless the
\* table fails too, and writes no entry; a List whose rdb.Set fails still
\* answers 200; Create, Update and Delete answer 201, 200 and 200 after
\* their write whether rdb.Del fails or not.
CacheFailureFailsNoRequest ==
    [][\A p \in Procs :
        /\ (procs[p].pc = "idle" /\ procs'[p].op = "list"
                /\ procs'[p].redisErr)
           => procs'[p].pc = "fallback" /\ cache' = cache
        /\ (Steps(p, "fallback", "done") /\ ~procs'[p].dbErr)
           => /\ procs'[p].status = 200
              /\ cache' = cache
              /\ \E zeroIsAll \in BOOLEAN :
                    procs'[p].applicants =
                        FindPage(store,
                            (procs[p].pageInt - 1) * procs[p].limitInt,
                            procs[p].limitInt, zeroIsAll)
        /\ Steps(p, "set", "done") => procs'[p].status = 200
        /\ Steps(p, "invalidate", "done")
           => procs'[p].status =
                    IF procs[p].op = "create" THEN 201 ELSE 200]_vars

\* C6's case: a List served a non-empty page from the table after its
\* rdb.Get failed, and a write answered success after its rdb.Del failed
ServedDespiteCacheFailure ==
    \E p, q \in Procs :
        /\ Finished(p, "list")
        /\ procs[p].path = "fallback"
        /\ procs[p].status = 200
        /\ procs[p].applicants # <<>>
        /\ procs[q].pc = "done"
        /\ procs[q].op \in {"create", "update", "delete"}
        /\ procs[q].redisErr
        /\ procs[q].status \in {200, 201}

\* C7 as stated: a List that finds its key in the cache answers from the
\* entry without a store call, and its data equal the data answered by
\* every List that missed and wrote the key less than three minutes ago
\* with no invalidation of the key since.
HitRepeatsEveryWriter ==
    \A p \in Procs :
        (Finished(p, "list") /\ procs[p].path = "hit")
        => /\ procs[p].status = 200
           /\ procs[p].dbCalls = 0
           /\ \A x \in procs[p].expect :
                    x.data = procs[p].applicants

\* C7 as amended: ... and its data, page and limit equal those answered by
\* the List that wrote the entry, which is the latest List that missed and
\* wrote the key (the first one when no other List wrote the key after it).
HitRepeatsLatestWriter ==
    \A p \in Procs :
        (Finished(p, "list") /\ procs[p].path = "hit")
        => /\ procs[p].status = 200
           /\ procs[p].dbCalls = 0
           /\ Cardinality(procs[p].latest) = 1
           /\ \A x \in procs[p].latest :
                    /\ x.data = procs[p].applicants
                    /\ x.page = procs[p].pageInt
                    /\ x.limit = procs[p].limitInt

\* C7's case: a List answered a non-empty page from the cache
HitWithData ==
    \E p \in Procs :
        /\ Finished(p, "list")
        /\ procs[p].path = "hit"
        /\ procs[p].applicants # <<>>
        /\ procs[p].latest # {}

\* the id matches no row that is not soft-deleted
Missing(id) == ~\E r \in store : r.ID = id /\ ~r.Deleted

StoreFailureIsInternal ==
    \A p \in Procs :
        (procs[p].pc = "done" /\ procs[p].dbErr) => procs[p].status = 500

\* a query value that is absent or holds a character that is no digit
AbsentOrWord(raw) == raw = <<>> \/ \E k \in 1..Len(raw) : raw[k] \notin Digits

\* C11: a List whose page value is absent or non-numeric works with page 1,
\* one whose limit value is absent or non-numeric with limit 10: these are
\* the integers its offset, its limit, its cache key and its answer are
\* made from.
AbsentOrWordIsDefault ==
    \A p \in Procs :
        procs[p].op = "list" =>
            /\ AbsentOrWord(procs[p].query[1]) => procs[p].pageInt = 1
            /\ AbsentOrWord(procs[p].query[2]) => procs[p].limitInt = 10

\* the columns of the table that a body can carry
Fields ==
    {"ID", "Deleted", "Name", "Email", "Position", "Status", "Phone",
     "Resume", "Notes"}

\* the body of the Update in slot p carries field f
Supplied(p, f) ==
    procs[p].updateData[f] # ZeroApplicant[f] \/ f \in procs[p].empty

\* C12: the write of an Update that goes on to answer 200 replaces the row
\* of the id asked for by a row that has the body's value in every field
\* the body carries and the row's previous value in every other field; no
\* other row changes; the record answered is the row as stored.
UpdateWritesSuppliedFields ==
    [][\A p \in Procs :
        (Steps(p, "write", "invalidate") /\ procs[p].op = "update")
        => \E old \in store, new \in store' :
                /\ old.ID = procs[p].id
                /\ store' \ {new} = store \ {old}
                /\ \A f \in Fields :
                        new[f] = IF Supplied(p, f)
                                 THEN procs[p].updateData[f] ELSE old[f]
                /\ procs'[p].applicant = new]_vars

\* C13: in every step the rows, soft-deleted ones included, have pairwise
\* distinct ids, every id of the table before the step is an id of the
\* table after it (no Create, no Update changes one), and an id that is
\* new in the table is the next value of the sequence of the store, not
\* one chosen by a body.
IdentifiersAssignedByStore ==
    [][/\ \A r1, r2 \in store' : r1.ID = r2.ID => r1 = r2
       /\ \A r \in store : \E n \in store' : n.ID = r.ID
       /\ \A n \in store' :
            (\A r \in store : r.ID # n.ID) => n.ID = nextId]_vars

\* the page of the table that the List in slot p asks for, as rows is
PageOf(p, rows) ==
    {FindPage(rows, (procs[p].pageInt - 1) * procs[p].limitInt,
              procs[p].limitInt, zeroIsAll) : zeroIsAll \in BOOLEAN}

\* C14: staleness is bounded by the TTL.  A List that misses reads the
\* page of the table as it is; the entry it writes holds the page it read
\* and lives three minutes; every other step leaves an entry as it is or
\* with less time to live; and an entry under a key that is not
\* invalidated differs from the table only when a write to the table came
\* after the entry was written, so an entry is the page of the table at
\* the time it is written.
StalenessBoundedByTTL ==
    [][/\ \A p \in Procs :
            /\ Steps(p, "query", "set")
               => procs'[p].applicants \in PageOf(p, store)
            /\ (Steps(p, "set", "done") /\ ~procs'[p].redisErr)
               => \E e \in cache' :
                    /\ e.key = CacheKey(procs[p].pageInt, procs[p].limitInt)
                    /\ e.val = Marshal(procs[p].applicants)
                    /\ e.ttl = TTL
                    /\ e.key \notin FixedKeys
                       => Unmarshal(e.val) \in PageOf(p, store')
       /\ \A e \in cache' :
            \/ \E p \in Procs :
                    /\ Steps(p, "set", "done")
                    /\ e.key = CacheKey(procs[p].pageInt, procs[p].limitInt)
            \/ \E o \in cache :
                    o.key = e.key /\ o.val = e.val /\ e.ttl <= o.ttl]_vars

\* C15: the write of an Update that goes on to answer 200 leaves in the
\* table a row of the id asked for that is not soft-deleted and has the
\* body's value in every field the body carries, whatever a Delete of the
\* same id did since the Update looked the row up; and no step changes a
\* soft-deleted row or makes it non-deleted again.
UpdateSuccessWroteRow ==
    [][/\ \A p \in Procs :
            (Steps(p, "write", "invalidate") /\ procs[p].op = "update")
            => \E new \in store' :
                    /\ new.ID = procs[p].id
                    /\ ~new.Deleted
                    /\ \A f \in Fields :
                            Supplied(p, f) =>
                                new[f] = procs[p].updateData[f]
       /\ \A r \in store : r.Deleted => r \in store']_vars

====
